---- MODULE Spec2Model ----
(***************************************************************************)
(* A model of the SEPEX dashboard: the typed API client (app/sepex.py),    *)
(* the overview aggregation (app/helpers.py) and the page script           *)
(* (app/home.py).                                                          *)
(*                                                                         *)
(* Conventions.                                                            *)
(*   - A JSON object / Python dict whose key order matters is a sequence   *)
(*     of [key, val] pairs; a record item (a job, a process) is a TLA+     *)
(*     function from its keys to its values.                               *)
(*   - Timestamps are minutes since an epoch that starts at midnight.      *)
(*     NaT (-1) is the missing timestamp, BadTs (-2) a value that does not *)
(*     parse as a datetime.  Null is None / NaN in a string column.        *)
(*   - A call either returns a value or raises: Returned(v) / Raised(e).   *)
(***************************************************************************)
EXTENDS Integers, Sequences, FiniteSets, TLC

VARIABLES
    \* ---- API client (one call of a SepexAPI method) ----
    call,       \* the method called with its arguments, or NoCall
    resp,       \* what the backend answered to the method's GET
    sent,       \* the GET the method issued: [url, params]
    result,     \* what the method returned or raised
    \* ---- render_jobs_overview ----
    jobs,       \* the list of job dicts handed to render_jobs_overview
    out,        \* what render_jobs_overview put on the page
    \* ---- the page script (home.py), one run per rerun ----
    pc,                   \* where the script is
    selected_job_id,      \* st.session_state.selected_job_id
    clicked,              \* the View button whose click started this run, if any
    shown,                \* the jobIDs of the rows the last finished table displayed
    log,                  \* the GETs this run issued so far
    df_all,               \* the overview's job rows
    selected_process_id,  \* the value of the processID selectbox
    meta,                 \* the locals of the metadata loop
    view                  \* what this run put on the page, panel by panel

clientVars == <<call, resp, sent, result>>
overviewVars == <<jobs, out>>
pageVars == <<pc, selected_job_id, clicked, shown, log, df_all, selected_process_id,
              meta, view>>
vars == <<call, resp, sent, result, jobs, out, pc, selected_job_id, clicked, shown,
          log, df_all, selected_process_id, meta, view>>

-----------------------------------------------------------------------------
(* Values *)

Null == "<null>"
NaT == -1
BadTs == -2
BASE_URL == "http://localhost:5050"
NoParams == {}
NoneValue == [kind |-> "None"]
NoJob == Null
NoStatus == 0
NoError == ""

Returned(v) == [tag |-> "return", value |-> v]
Raised(e) == [tag |-> "raise", error |-> e]

DataFrameOf(rows) == [kind |-> "DataFrame", rows |-> rows]

JArray(items) == [kind |-> "array", items |-> items]
JObject(fields) == [kind |-> "object", fields |-> fields]
Field(k, v) == [key |-> k, val |-> v]

Http(status, body) == [outcome |-> "http", status |-> status, body |-> body]
TransportError(e) == [outcome |-> "transport_error", error |-> e]

Range(s) == {s[i] : i \in DOMAIN s}

RECURSIVE SumSeq(_)
SumSeq(s) == IF s = <<>> THEN 0 ELSE Head(s) + SumSeq(Tail(s))

-----------------------------------------------------------------------------
(* Record models (pydantic): every declared field is required, Optional    *)
(* ones may be null; model_dump keeps exactly the declared fields.         *)

JobFields == {"jobID", "updated", "status", "processID", "type", "submitter"}
JobNullable == {"type", "submitter"}

JobValid(item) ==
    /\ JobFields \subseteq DOMAIN item
    /\ item["updated"] >= 0
    /\ \A f \in (JobFields \ JobNullable) \ {"updated"} : item[f] # Null

JobDump(item) == [f \in JobFields |-> item[f]]

ProcessFields ==
    {"version", "id", "title", "description", "jobControlOptions", "outputTransmission"}

ProcessValid(p) ==
    /\ ProcessFields \subseteq DOMAIN p
    /\ \A f \in {"version", "id", "title", "description"} : p[f] # Null

ProcessDump(p) == [f \in ProcessFields |-> p[f]]

-----------------------------------------------------------------------------
(* SepexAPI *)

\* dict.get(key, default) on a parsed JSON object
DictGet(fields, key, default) ==
    IF \E i \in DOMAIN fields : fields[i].key = key
    THEN fields[CHOOSE i \in DOMAIN fields : fields[i].key = key].val
    ELSE default

\* the first list among data.values(), or the dict itself when there is none
FirstListValue(body) ==
    LET idx == {i \in DOMAIN body.fields : body.fields[i].val.kind = "array"}
    IN  IF idx = {} THEN body
        ELSE body.fields[CHOOSE i \in idx : \A j \in idx : i <= j].val

\* the GET fetch_table issues: requests.get(url), the params argument is not passed on
FetchTableRequest(base_url, endpoint, params) ==
    [url |-> base_url \o "/" \o endpoint, params |-> NoParams]

FetchTable(r) ==
    IF r.outcome = "transport_error" THEN Raised("ConnectionError")
    ELSE IF r.status = 200
    THEN LET data == IF r.body.kind = "object" THEN FirstListValue(r.body) ELSE r.body
         IN  IF data.kind = "object"
             THEN \* iterating a dict yields its keys: model_cls(**"key") is a TypeError
                  IF data.fields = <<>> THEN Returned(DataFrameOf(<<>>))
                  ELSE Raised("TypeError")
             ELSE IF \E i \in DOMAIN data.items : ~JobValid(data.items[i])
                  THEN Raised("ValidationError")
                  ELSE Returned(DataFrameOf(
                           [i \in DOMAIN data.items |-> JobDump(data.items[i])]))
    ELSE Returned(NoneValue)

ProcessRequest(base_url, endpoint) ==
    [url |-> base_url \o "/" \o endpoint, params |-> NoParams]

FetchProcessesDict(r) ==
    IF r.outcome = "transport_error" THEN Raised("ConnectionError")
    ELSE IF r.status = 200
    THEN IF r.body.kind # "object" THEN Raised("AttributeError")  \* list has no .get
         ELSE LET processes == DictGet(r.body.fields, "processes", JArray(<<>>)).items
                  withId == {i \in DOMAIN processes : "id" \in DOMAIN processes[i]}
                  ids == {processes[i]["id"] : i \in withId}
                  last(pid) == CHOOSE i \in withId :
                                   /\ processes[i]["id"] = pid
                                   /\ \A j \in withId : processes[j]["id"] = pid => j <= i
              IN  IF \E i \in withId : ~ProcessValid(processes[i])
                  THEN Raised("ValidationError")
                  ELSE Returned([pid \in ids |-> ProcessDump(processes[last(pid)])])
    ELSE Returned(<<>>)

FetchProcessesYaml(r) ==
    IF r.outcome = "transport_error" THEN Raised("ConnectionError")
    ELSE IF r.status = 200
    THEN IF r.body.kind # "object" THEN Raised("AttributeError")
         ELSE LET processes == DictGet(r.body.fields, "processes", JArray(<<>>)).items
              IN  IF \E i \in DOMAIN processes : "id" \notin DOMAIN processes[i]
                  THEN Raised("KeyError")
                  ELSE IF \E i \in DOMAIN processes : ~ProcessValid(processes[i])
                  THEN Raised("ValidationError")
                  ELSE Returned([process_ids |->
                                     [i \in DOMAIN processes |-> processes[i]["id"]],
                                 yamls |->
                                     [i \in DOMAIN processes |-> ProcessDump(processes[i])]])
    ELSE Returned(NoneValue)

-----------------------------------------------------------------------------
(* helpers.py: the overview aggregation *)

top_n == 10
top_n_sub == 10

Columns(js) == UNION {DOMAIN js[i] : i \in DOMAIN js}

\* pd.DataFrame(jobs): a key missing from a record is NaN / NaT in its column.
\* The timestamps are datetimes already, so pd.to_datetime keeps them.
prepare_jobs_dataframe(js) ==
    LET cols == Columns(js)
        cell(j, c) == IF c \in DOMAIN j THEN j[c]
                      ELSE IF c = "updated" THEN NaT ELSE Null
    IN  [columns |-> cols,
         rows |-> [i \in DOMAIN js |-> [c \in cols |-> cell(js[i], c)]]]

DfEmpty(df) == Len(df.rows) = 0 \/ df.columns = {}

Column(df, c) == [i \in DOMAIN df.rows |-> df.rows[i][c]]

get_process_maps(r) ==
    LET fetched == FetchProcessesDict(r)
    IN  IF fetched.tag = "raise" THEN fetched
        ELSE Returned([pid \in DOMAIN fetched.value |->
                          IF fetched.value[pid]["title"] = Null THEN ""
                          ELSE fetched.value[pid]["title"]])

\* display_df[display_df["status"] == s].shape[0]
StatusCount(df, s) ==
    IF "status" \in df.columns
    THEN Cardinality({i \in DOMAIN df.rows : df.rows[i]["status"] = s})
    ELSE 0

UniqueProcesses(df) ==
    IF "processID" \in df.columns
    THEN Cardinality(Range(Column(df, "processID")) \ {Null})
    ELSE 0

HasTimestamps(df) ==
    "updated" \in df.columns /\ \E i \in DOMAIN df.rows : df.rows[i]["updated"] # NaT

Timestamps(df) == Range(Column(df, "updated")) \ {NaT}
MaxTs(df) == CHOOSE t \in Timestamps(df) : \A u \in Timestamps(df) : u <= t
MinTs(df) == CHOOSE t \in Timestamps(df) : \A u \in Timestamps(df) : t <= u

LastSeen(df) == IF HasTimestamps(df) THEN MaxTs(df) ELSE NaT

Days(n) == n * 24 * 60
Hours(n) == n * 60

\* the thresholds taken as exclusive
ChooseBucketExclusive(span) ==
    IF span > Days(7) THEN "1d"
    ELSE IF span > Days(2) THEN "12h"
    ELSE IF span > Hours(6) THEN "1h"
    ELSE "15min"

ChooseBucket(span) ==
    IF span >= Days(7) THEN "1d"
    ELSE IF span >= Days(2) THEN "12h"
    ELSE IF span >= Hours(6) THEN "1h"
    ELSE "15min"

BucketWidth(bucket) ==
    CASE bucket = "1d" -> Days(1)
      [] bucket = "12h" -> Hours(12)
      [] bucket = "1h" -> Hours(1)
      [] bucket = "15min" -> 15

\* groupby([Grouper(freq=bucket), "status"]).size(): rows without a timestamp or a
\* status are in no group, empty buckets give no row
TimeSeriesCounts(df, bucket) ==
    LET w == BucketWidth(bucket)
        inGroup == {i \in DOMAIN df.rows :
                        df.rows[i]["updated"] # NaT /\ df.rows[i]["status"] # Null}
        keys == {<<(df.rows[i]["updated"] \div w) * w, df.rows[i]["status"]>> : i \in inGroup}
    IN  {[updated |-> k[1], status |-> k[2],
          count |-> Cardinality({i \in inGroup :
                        /\ (df.rows[i]["updated"] \div w) * w = k[1]
                        /\ df.rows[i]["status"] = k[2]})] : k \in keys}

RECURSIVE FirstSeen(_, _)
FirstSeen(vals, acc) ==
    IF vals = <<>> THEN acc
    ELSE FirstSeen(Tail(vals),
                   IF Head(vals) \in Range(acc) THEN acc ELSE Append(acc, Head(vals)))

InsertByCount(sorted, r) ==
    LET k == Cardinality({i \in DOMAIN sorted : sorted[i].count >= r.count})
    IN  SubSeq(sorted, 1, k) \o <<r>> \o SubSeq(sorted, k + 1, Len(sorted))

RECURSIVE SortByCount(_, _)
SortByCount(rows, acc) ==
    IF rows = <<>> THEN acc
    ELSE SortByCount(Tail(rows), InsertByCount(acc, Head(rows)))

\* Series.value_counts(): null values are dropped, rows sorted by descending count
ValueCounts(vals) ==
    LET kept == SelectSeq(vals, LAMBDA v : v # Null)
        distinct == FirstSeen(kept, <<>>)
        rows == [i \in DOMAIN distinct |->
                    [value |-> distinct[i],
                     count |-> Cardinality({j \in DOMAIN kept : kept[j] = distinct[i]})]]
    IN  SortByCount(rows, <<>>)

\* the overflow row added from n rows on instead of from more than n
TopNWithOverflowFromN(counts, n) ==
    IF Len(counts) >= n
    THEN LET tail == SubSeq(counts, n + 1, Len(counts))
             others == SumSeq([i \in DOMAIN tail |-> tail[i].count])
         IN  Append(SubSeq(counts, 1, n), [value |-> "other", count |-> others])
    ELSE counts

\* the rows after the first n collapse into one "other" row
TopNWithOverflow(counts, n) ==
    IF Len(counts) > n
    THEN LET tail == SubSeq(counts, n + 1, Len(counts))
             others == SumSeq([i \in DOMAIN tail |-> tail[i].count])
         IN  Append(SubSeq(counts, 1, n), [value |-> "other", count |-> others])
    ELSE counts

\* processID.astype(str).map(lambda x: process_map.get(x, x))
ProcessTitles(df, process_map) ==
    LET asStr(v) == IF v = Null THEN "nan" ELSE v
        ids == Column(df, "processID")
    IN  [i \in DOMAIN ids |->
            IF asStr(ids[i]) \in DOMAIN process_map THEN process_map[asStr(ids[i])]
            ELSE asStr(ids[i])]

NoTable == <<>>

Rendering(raised, notice, kpis, bucket, left, right, proc_counts, sub_counts) ==
    [raised |-> raised, notice |-> notice, kpis |-> kpis, bucket |-> bucket,
     left |-> left, right |-> right, proc_counts |-> proc_counts,
     sub_counts |-> sub_counts]

\* the right column of the charts row, inside the branch that has timestamps
RightColumn(df, process_map) ==
    IF "processID" \in df.columns
    THEN LET proc_counts == TopNWithOverflow(ValueCounts(ProcessTitles(df, process_map)), top_n)
         IN  IF "submitter" \in df.columns
             THEN [right |-> <<"pie", "sub_bar">>, proc_counts |-> proc_counts,
                   sub_counts |-> TopNWithOverflow(ValueCounts(Column(df, "submitter")), top_n_sub)]
             ELSE [right |-> <<"pie", "info: No submitter data to show distribution.">>,
                   proc_counts |-> proc_counts, sub_counts |-> NoTable]
    ELSE [right |-> <<"info: No processID field to show distribution.">>,
          proc_counts |-> NoTable, sub_counts |-> NoTable]

\* the failed count taken from the successful rows
KpisCopied(df) ==
    [total_jobs |-> Len(df.rows),
     unique_processes |-> UniqueProcesses(df),
     last_seen |-> LastSeen(df),
     successful |-> StatusCount(df, "successful"),
     failed |-> StatusCount(df, "successful"),
     running |-> StatusCount(df, "running")]

Kpis(df) ==
    [total_jobs |-> Len(df.rows),
     unique_processes |-> UniqueProcesses(df),
     last_seen |-> LastSeen(df),
     successful |-> StatusCount(df, "successful"),
     failed |-> StatusCount(df, "failed"),
     running |-> StatusCount(df, "running")]

NoKpis == [total_jobs |-> 0, unique_processes |-> 0, last_seen |-> NaT,
           successful |-> 0, failed |-> 0, running |-> 0]

\* r is the backend's answer to the GET /processes that get_process_maps issues
render_jobs_overview(js, r) ==
    LET dfj == prepare_jobs_dataframe(js)
        maps == get_process_maps(r)
    IN  IF DfEmpty(dfj)
        THEN Rendering(FALSE, "No jobs available for overview charts.", NoKpis, "none",
                       <<>>, <<>>, NoTable, NoTable)
        ELSE IF maps.tag = "raise"
        THEN Rendering(TRUE, maps.error, NoKpis, "none", <<>>, <<>>, NoTable, NoTable)
        ELSE IF HasTimestamps(dfj)
        THEN LET bucket == ChooseBucket(MaxTs(dfj) - MinTs(dfj))
             IN  IF "status" \notin dfj.columns
                 THEN \* groupby on a column that is not there
                      Rendering(TRUE, "KeyError", Kpis(dfj), bucket, <<>>, <<>>,
                                NoTable, NoTable)
                 ELSE LET counts == TimeSeriesCounts(dfj, bucket)
                          rc == RightColumn(dfj, maps.value)
                      IN  Rendering(FALSE, Null, Kpis(dfj), bucket,
                                    IF counts # {} THEN <<"chart">> ELSE <<>>,
                                    rc.right, rc.proc_counts, rc.sub_counts)
        ELSE Rendering(FALSE, Null, Kpis(dfj), "none",
                       <<"info: No timestamped jobs to chart.">>,
                       <<"info: No processID data.">>, NoTable, NoTable)

-----------------------------------------------------------------------------
(* What the backend can answer *)

MaxRecords == 2

Job(id, upd, status, pid, submitter) ==
    [jobID |-> id, updated |-> upd, status |-> status, processID |-> pid,
     type |-> "process", submitter |-> submitter]

Process(id, title) ==
    [version |-> "1.0", id |-> id, title |-> title, description |-> "d",
     jobControlOptions |-> <<"async-execute">>, outputTransmission |-> Null]

Link == [href |-> "/next", rel |-> "next"]

ValidJobs ==
    {Job("j1", 0, "successful", "p1", "alice"), Job("j2", 360, "failed", "p2", Null)}

\* a job without its submitter key, and one whose timestamp does not parse
InvalidJobs ==
    {[jobID |-> "j3", updated |-> 0, status |-> "running", processID |-> "p1",
      type |-> "process"],
     Job("j4", BadTs, "running", "p1", "bob")}

ValidProcesses == {Process("p1", "Title 1"), Process("p2", "Title 2")}

InvalidProcesses == {[id |-> "p3", title |-> "Title 3"]}

SeqsUpTo(S, n) == UNION {[1..k -> S] : k \in 0..n}

\* the sequences with at most one invalid record, which then comes last
RecordSeqs(valid, invalid) ==
    SeqsUpTo(valid, MaxRecords)
        \cup {Append(s, x) : s \in SeqsUpTo(valid, MaxRecords - 1), x \in invalid}

\* the shapes a 200 answer of a list endpoint takes
BareArray(recs) == JArray(recs)
Envelope(key, recs) == JObject(<<Field(key, JArray(recs))>>)
EnvelopeThenLinks(key, recs, links) ==
    JObject(<<Field(key, JArray(recs)), Field("links", JArray(links))>>)
LinksThenEnvelope(key, recs, links) ==
    JObject(<<Field("links", JArray(links)), Field(key, JArray(recs))>>)

Shapes == {"bare", "envelope", "envelope_links", "links_envelope"}

Body(shape, key, recs) ==
    CASE shape = "bare" -> BareArray(recs)
      [] shape = "envelope" -> Envelope(key, recs)
      [] shape = "envelope_links" -> EnvelopeThenLinks(key, recs, <<Link>>)
      [] shape = "links_envelope" -> LinksThenEnvelope(key, recs, <<Link>>)

ErrorStatuses == {404, 500}

ListResponses(key, valid, invalid) ==
    {Http(200, Body(shape, key, recs)) :
         shape \in Shapes, recs \in RecordSeqs(valid, invalid)}
        \cup {Http(st, JObject(<<>>)) : st \in ErrorStatuses}
        \cup {TransportError("ConnectionError")}

JobsResponses == ListResponses("jobs", ValidJobs, InvalidJobs)
ProcessesResponses == ListResponses("processes", ValidProcesses, InvalidProcesses)

\* the params the page script hands to fetch_table
OverviewParams == {<<"limit", "500">>, <<"offset", "0">>}
ProcessParams(pid) == {<<"limit", "1000">>, <<"processID", pid>>}
CallerParams == {OverviewParams} \cup {ProcessParams(pid) : pid \in {"p1", "p2", Null}}

NoCall == [fn |-> "none"]

-----------------------------------------------------------------------------
(* The page before its script runs *)

BlankView ==
    [overview |-> NoneValue, processes |-> "none", table |-> [notice |-> "none", rows |-> <<>>],
     details |-> [kind |-> "none", error |-> NoError, status |-> NoStatus]]

NoMeta == [i |-> 0, meta_data |-> NoneValue, last_status |-> NoStatus, last_error |-> NoError]

PageIdle ==
    /\ pc = "start"
    /\ selected_job_id = NoJob
    /\ clicked = NoJob
    /\ shown = {}
    /\ log = <<>>
    /\ df_all = <<>>
    /\ selected_process_id = Null
    /\ meta = NoMeta
    /\ view = BlankView

-----------------------------------------------------------------------------
(* The client alone: one method call per step *)

CallFetchTable ==
    \E params \in CallerParams, r \in JobsResponses :
        /\ call' = [fn |-> "fetch_table", endpoint |-> "jobs", params |-> params]
        /\ sent' = FetchTableRequest(BASE_URL, "jobs", params)
        /\ resp' = r
        /\ result' = FetchTable(r)
        /\ UNCHANGED <<overviewVars, pageVars>>

CallFetchProcessesDict ==
    \E r \in ProcessesResponses :
        /\ call' = [fn |-> "fetch_processes_dict", endpoint |-> "processes",
                    params |-> NoParams]
        /\ sent' = ProcessRequest(BASE_URL, "processes")
        /\ resp' = r
        /\ result' = FetchProcessesDict(r)
        /\ UNCHANGED <<overviewVars, pageVars>>

CallFetchProcessesYaml ==
    \E r \in ProcessesResponses :
        /\ call' = [fn |-> "fetch_processes_yaml", endpoint |-> "processes",
                    params |-> NoParams]
        /\ sent' = ProcessRequest(BASE_URL, "processes")
        /\ resp' = r
        /\ result' = FetchProcessesYaml(r)
        /\ UNCHANGED <<overviewVars, pageVars>>

InitClient ==
    /\ call = NoCall
    /\ resp = NoneValue
    /\ sent = NoneValue
    /\ result = NoneValue
    /\ jobs = <<>>
    /\ out = NoneValue
    /\ PageIdle

NextClient == CallFetchTable \/ CallFetchProcessesDict \/ CallFetchProcessesYaml

SpecClient == InitClient /\ [][NextClient]_vars

-----------------------------------------------------------------------------
(* render_jobs_overview alone: one render of a job list *)

MaxSpanJobs == 2
MaxKpiJobs == 3
MaxPartialJobs == 2
MaxDistinct == 12
MaxDup == 2
MaxNull == 2

\* timestamps on both sides of every bucket threshold
SpanTimes == {0, 1, Hours(6), Days(2), Days(7)}

SpanInputs ==
    UNION {[1..k -> {Job("j", t, "successful", "p1", "alice") : t \in SpanTimes \cup {NaT}}] :
               k \in 1..MaxSpanJobs}

KpiJobs ==
    {Job("j", tp[1], st, tp[2], "alice") :
        st \in {"successful", "failed", "running", "accepted"},
        tp \in {<<0, "p1">>, <<Hours(6), "p2">>}}

KpiInputs == SeqsUpTo(KpiJobs, MaxKpiJobs)

\* records that lack some of their keys
PartialJob(keys) ==
    [k \in keys |-> CASE k = "status" -> "successful"
                      [] k = "updated" -> 0
                      [] k = "processID" -> "p1"
                      [] k = "submitter" -> "alice"]

PartialJobs ==
    {PartialJob({"status"} \cup ks) : ks \in SUBSET {"updated", "processID", "submitter"}}
        \cup {PartialJob({"updated", "processID"})}

PartialInputs == UNION {[1..k -> PartialJobs] : k \in 1..MaxPartialJobs}

Name(prefix, i) == prefix \o ToString(i)

\* d distinct processes and submitters, the last one dup more times, then nulls
\* jobs that have no submitter
ManyValues(d, dup, nulls) ==
    [i \in 1..(d + dup + nulls) |->
        IF i <= d THEN Job(Name("j", i), i, "successful", Name("p", i), Name("u", i))
        ELSE IF i <= d + dup
        THEN Job(Name("j", i), i, "failed", Name("p", d), Name("u", d))
        ELSE Job(Name("j", i), i, "running", "p1", Null)]

TopNInputs ==
    {ManyValues(d, dup, nulls) :
        d \in 1..MaxDistinct, dup \in 0..MaxDup, nulls \in 0..MaxNull}

OverviewInputs == SpanInputs \cup KpiInputs \cup PartialInputs \cup TopNInputs

\* answers to the GET /processes of get_process_maps
OverviewProcessesResponses ==
    {Http(404, JObject(<<>>)),
     Http(200, Envelope("processes", <<Process("p1", "Title 1"), Process("p2", "Title 1")>>)),
     TransportError("ConnectionError")}

RenderOverview ==
    /\ out = NoneValue
    /\ out' = render_jobs_overview(jobs, resp)
    /\ sent' = IF DfEmpty(prepare_jobs_dataframe(jobs)) THEN sent
               ELSE ProcessRequest(BASE_URL, "processes")
    /\ UNCHANGED <<call, resp, result, jobs, pageVars>>

InitOverview ==
    /\ jobs \in OverviewInputs
    /\ resp \in OverviewProcessesResponses
    /\ out = NoneValue
    /\ call = NoCall
    /\ sent = NoneValue
    /\ result = NoneValue
    /\ PageIdle

NextOverview == RenderOverview

SpecOverview == InitOverview /\ [][NextOverview]_vars

-----------------------------------------------------------------------------
(* Properties of render_jobs_overview (checked under SpecOverview) *)

Rendered == out # NoneValue

ProcessesFetched == get_process_maps(resp).tag = "return"

\* the parsed timestamps of the input list
JobTimes ==
    {jobs[i]["updated"] : i \in {k \in DOMAIN jobs : "updated" \in DOMAIN jobs[k]}} \ {NaT}

Span ==
    (CHOOSE t \in JobTimes : \A u \in JobTimes : u <= t)
        - (CHOOSE t \in JobTimes : \A u \in JobTimes : t <= u)

HasKey(k) == \E i \in DOMAIN jobs : k \in DOMAIN jobs[i]

\* C1: with at least one parsed timestamp the bucket width is decided by the span
\* alone: 1 day from 7 days (10080 min) on, 12 hours from 2 days (2880 min) on,
\* 1 hour from 6 hours (360 min) on, 15 minutes below.
C1_BucketBySpan ==
    (Rendered /\ JobTimes # {} /\ ProcessesFetched) =>
        out.bucket = (IF Span >= 10080 THEN "1d"
                      ELSE IF Span >= 2880 THEN "12h"
                      ELSE IF Span >= 360 THEN "1h"
                      ELSE "15min")

\* a span of exactly 6 hours was rendered with 1-hour buckets
C1_Witness ==
    /\ Rendered /\ JobTimes # {} /\ ProcessesFetched
    /\ Span = 360
    /\ out.bucket = "1h"

\* the values of one key over the jobs, Null where a job has none
RawValues(k) ==
    [i \in DOMAIN jobs |-> IF k \in DOMAIN jobs[i] THEN jobs[i][k] ELSE Null]

Titles ==
    LET m == get_process_maps(resp).value
    IN  [i \in DOMAIN jobs |-> IF jobs[i]["processID"] \in DOMAIN m
                               THEN m[jobs[i]["processID"]] ELSE jobs[i]["processID"]]

CountsSum(table) == SumSeq([i \in DOMAIN table |-> table[i].count])

\* C2: a breakdown of more than 10 distinct process titles, or of more than 10
\* distinct submitters, has exactly 11 rows and its counts add up to the number of
\* jobs, the jobs without a submitter included.
C2_TopNCoversAllJobs ==
    (Rendered /\ ~out.raised /\ out.right = <<"pie", "sub_bar">>
        /\ \A i \in DOMAIN jobs : "processID" \in DOMAIN jobs[i]) =>
        /\ Cardinality(Range(Titles)) > 10 =>
               Len(out.proc_counts) = 11 /\ CountsSum(out.proc_counts) = Len(jobs)
        /\ Cardinality(Range(RawValues("submitter")) \ {Null}) > 10 =>
               Len(out.sub_counts) = 11 /\ CountsSum(out.sub_counts) = Len(jobs)

\* C9: whatever subset of updated / processID / submitter is missing, the render
\* does not raise, each chart whose field is present is rendered and each chart
\* whose field is missing is replaced by a notice.
C9_MissingFieldsDegrade ==
    (Rendered /\ jobs # <<>> /\ ProcessesFetched
        /\ \A i \in DOMAIN jobs : "status" \in DOMAIN jobs[i]) =>
        /\ ~out.raised
        /\ HasKey("updated") <=> out.left = <<"chart">>
        /\ HasKey("processID") <=> "pie" \in Range(out.right)
        /\ HasKey("submitter") <=> "sub_bar" \in Range(out.right)
        /\ ~HasKey("updated") => out.kpis.last_seen = NaT

StatusIs(s) ==
    Cardinality({i \in DOMAIN jobs : "status" \in DOMAIN jobs[i] /\ jobs[i]["status"] = s})

\* C10: the summary has total = number of jobs, successful / failed / running =
\* number of jobs with exactly that status, unique processes = number of distinct
\* processID values, last seen = the latest timestamp; other statuses count
\* towards the total only.
C10_Summary ==
    (Rendered /\ jobs # <<>> /\ Columns(jobs) # {} /\ ProcessesFetched) =>
        /\ out.kpis.total_jobs = Len(jobs)
        /\ out.kpis.successful = StatusIs("successful")
        /\ out.kpis.failed = StatusIs("failed")
        /\ out.kpis.running = StatusIs("running")
        /\ out.kpis.unique_processes = Cardinality(Range(RawValues("processID")) \ {Null})
        /\ out.kpis.last_seen =
               (IF JobTimes = {} THEN NaT
                ELSE CHOOSE t \in JobTimes : \A u \in JobTimes : u <= t)
        /\ out.kpis.successful + out.kpis.failed + out.kpis.running <= out.kpis.total_jobs

\* the statuses [successful, failed, successful] were summarised as 3 / 2 / 1 / 0
C10_Witness ==
    /\ Rendered /\ ProcessesFetched
    /\ Len(jobs) = 3
    /\ \A i \in DOMAIN jobs : "status" \in DOMAIN jobs[i]
    /\ [i \in DOMAIN jobs |-> jobs[i]["status"]] = <<"successful", "failed", "successful">>
    /\ out.kpis.total_jobs = 3 /\ out.kpis.successful = 2
    /\ out.kpis.failed = 1 /\ out.kpis.running = 0

\* the occurrences a breakdown stands for: each row's value, count times, row by row
RECURSIVE Occurrences(_)
Occurrences(table) ==
    IF table = <<>> THEN <<>>
    ELSE [i \in 1..Head(table).count |-> Head(table).value] \o Occurrences(Tail(table))

\* the breakdown of a breakdown's own occurrences
Again(table) == TopNWithOverflow(ValueCounts(Occurrences(table)), top_n)

\* table is the plain breakdown of the values vals (Null where a job has no value)
PlainBreakdown(table, vals) ==
    LET distinct == Range(vals) \ {Null}
    IN  /\ Len(table) = Cardinality(distinct)
        /\ {table[i].value : i \in DOMAIN table} = distinct
        /\ \A i \in DOMAIN table :
               table[i].count = Cardinality({j \in DOMAIN vals : vals[j] = table[i].value})
        /\ \A i, j \in DOMAIN table : i < j => table[i].count >= table[j].count
        /\ Again(table) = table

\* C11: a breakdown of at most 10 distinct process titles, or of at most 10
\* distinct submitters, has exactly one row per distinct value with that value's
\* number of occurrences, in descending order of count and without an "other" row,
\* and the breakdown of its own rows (each weighted by its count) is the same rows.
C11_SmallBreakdownIsPlain ==
    (Rendered /\ ~out.raised /\ out.right = <<"pie", "sub_bar">>
        /\ \A i \in DOMAIN jobs : "processID" \in DOMAIN jobs[i]) =>
        /\ Cardinality(Range(Titles)) <= 10 => PlainBreakdown(out.proc_counts, Titles)
        /\ Cardinality(Range(RawValues("submitter")) \ {Null}) <= 10 =>
               PlainBreakdown(out.sub_counts, RawValues("submitter"))

\* exactly 10 distinct submitters were broken down into 10 rows, the most frequent
\* one (the last to appear in the list) first
C11_Witness ==
    /\ Rendered /\ ~out.raised /\ out.right = <<"pie", "sub_bar">>
    /\ Cardinality(Range(RawValues("submitter")) \ {Null}) = 10
    /\ Len(out.sub_counts) = 10
    /\ out.sub_counts[1].value = jobs[10]["submitter"]
    /\ out.sub_counts[1].count > out.sub_counts[2].count


-----------------------------------------------------------------------------
(* Properties of the client methods (checked under SpecClient) *)

Called(fn) == call.fn = fn

Fetch(fn, r) ==
    CASE fn = "fetch_table" -> FetchTable(r)
      [] fn = "fetch_processes_dict" -> FetchProcessesDict(r)
      [] fn = "fetch_processes_yaml" -> FetchProcessesYaml(r)

EnvelopeKey == IF call.endpoint = "jobs" THEN "jobs" ELSE "processes"

AllValid(items) ==
    \A i \in DOMAIN items :
        IF call.endpoint = "jobs" THEN JobValid(items[i]) ELSE ProcessValid(items[i])

\* C5: for each list method, a 200 answer that is the bare array of valid records
\* and a 200 answer that holds the same array under its named key (alone, or next
\* to a links field) give the same collection, and neither raises.
C5_BothShapesSameCollection ==
    (~Called("none") /\ resp.outcome = "http" /\ resp.status = 200
        /\ resp.body.kind = "array" /\ AllValid(resp.body.items)) =>
        /\ result.tag = "return"
        /\ \A shape \in Shapes :
               Fetch(call.fn, Http(200, Body(shape, EnvelopeKey, resp.body.items))) = result

\* C6: the GET that fetch_table issues carries every key/value of the caller's params.
C6_ParamsSent ==
    Called("fetch_table") =>
        /\ sent.url = BASE_URL \o "/" \o call.endpoint
        /\ call.params \subseteq sent.params

\* C7: what fetch_table and fetch_processes_dict return on a non-200 status differs
\* from what they return on a 200 answer holding an empty list.
C7_FailureNotEmpty ==
    ((Called("fetch_table") \/ Called("fetch_processes_dict"))
        /\ resp.outcome = "http" /\ resp.status # 200) =>
        /\ result.tag = "return"
        /\ result # Fetch(call.fn, Http(200, Envelope(EnvelopeKey, <<>>)))

-----------------------------------------------------------------------------
(* home.py: the page script.  Each action runs the script from one GET up to *)
(* the next; the user's widget choices are drawn where the script reads them. *)

PageJobsResponses ==
    {Http(200, EnvelopeThenLinks("jobs", recs, <<>>)) :
         recs \in {<<>>,
                   <<Job("j1", 0, "successful", "p1", "alice")>>,
                   <<Job("j1", 0, "successful", "p1", "alice"),
                     Job("j2", Hours(6), "failed", "p2", Null)>>,
                   <<[jobID |-> "j3", updated |-> 0, status |-> "running",
                      processID |-> "p1"]>>}}
        \cup {Http(404, JObject(<<>>)), TransportError("refused")}

PageProcessesResponses ==
    {Http(200, LinksThenEnvelope("processes", recs, <<>>)) :
         recs \in {<<>>, <<Process("p1", "Title 1"), Process("p2", "Title 2")>>,
                   <<[id |-> "p3", title |-> "Title 3"]>>}}
        \cup {Http(500, JObject(<<>>)), TransportError("refused")}

ResultsFields == {"jobID", "processID", "results"}
LogsFields == {"jobID", "processID", "status", "process_logs", "server_logs"}
MetadataFields ==
    {"context", "apiJobId", "commands", "endedAtTime", "generatedAtTime", "image",
     "process", "startedAtTime"}

LogLine == [level |-> "info", msg |-> "started", time |-> "t0"]

\* a body that fits the model, one that is some other object, and for the logs an
\* object that has process_logs but not the rest
DetailBodies(fields) ==
    {[f \in fields |-> IF f \in {"process_logs", "server_logs"} THEN <<LogLine>> ELSE "v"],
     [jobID |-> "j1", status |-> "successful"],
     [process_logs |-> <<LogLine>>],
     <<>>}

DetailResponses(fields) ==
    {Http(200, b) : b \in DetailBodies(fields)}
        \cup {Http(404, <<>>), Http(500, <<>>)}
        \cup {TransportError(e) : e \in {"refused", "timed out"}}

Logged(req, r) ==
    [url |-> req.url, params |-> req.params,
     status |-> IF r.outcome = "http" THEN r.status ELSE NoStatus,
     error |-> IF r.outcome = "http" THEN NoError ELSE r.error]

PlainGet(url) == [url |-> url, params |-> NoParams]

\* raw_all = api.fetch_table("jobs", Job, params={"limit": 500, "offset": 0})
FetchOverviewJobs ==
    /\ pc = "start"
    /\ \E r \in PageJobsResponses :
        LET raw_all == FetchTable(r)
        IN  /\ log' = Append(log, Logged(FetchTableRequest(BASE_URL, "jobs", OverviewParams), r))
            /\ IF raw_all.tag = "raise"
               THEN pc' = "crashed" /\ df_all' = df_all
               ELSE /\ pc' = "overview"
                    /\ df_all' = IF raw_all.value.kind = "DataFrame"
                                 THEN raw_all.value.rows ELSE <<>>
    /\ UNCHANGED <<selected_job_id, clicked, shown, selected_process_id, meta, view,
                   clientVars, overviewVars>>

\* render_jobs_overview(df_all.to_dict(orient="records"), api=api)
RenderOverviewPanel ==
    /\ pc = "overview"
    /\ \E r \in PageProcessesResponses :
        LET asked == ~DfEmpty(prepare_jobs_dataframe(df_all))
            rendering == render_jobs_overview(df_all, r)
        IN  /\ asked \/ r = Http(500, JObject(<<>>))
            /\ log' = IF asked
                      THEN Append(log, Logged(ProcessRequest(BASE_URL, "processes"), r))
                      ELSE log
            /\ view' = [view EXCEPT !.overview = rendering]
            /\ pc' = IF rendering.raised THEN "crashed" ELSE "processes"
    /\ UNCHANGED <<selected_job_id, clicked, shown, df_all, selected_process_id, meta,
                   clientVars, overviewVars>>

\* processes_dict = api.fetch_processes_dict(), the selectbox and the Processes column
FetchProcesses ==
    /\ pc = "processes"
    /\ \E r \in PageProcessesResponses :
        LET processes_dict == FetchProcessesDict(r)
        IN  /\ log' = Append(log, Logged(ProcessRequest(BASE_URL, "processes"), r))
            /\ IF processes_dict.tag = "raise"
               THEN /\ pc' = "crashed"
                    /\ UNCHANGED <<selected_process_id, view>>
               ELSE /\ pc' = "jobs"
                    /\ IF DOMAIN processes_dict.value = {}
                       THEN /\ selected_process_id' = Null
                            /\ view' = [view EXCEPT !.processes = "empty"]
                       ELSE \E choice \in DOMAIN processes_dict.value :
                            /\ selected_process_id' = choice
                            /\ view' = [view EXCEPT
                                   !.processes = processes_dict.value[choice]["title"]]
    /\ UNCHANGED <<selected_job_id, clicked, shown, df_all, meta, clientVars, overviewVars>>

status_options == {"All", "accepted", "dismissed", "running", "failed", "successful"}

ApplyFilters(rows, selected_status, selected_process_filter, selected_submitter_filter) ==
    SelectSeq(rows, LAMBDA row :
        /\ selected_status # "All" => row["status"] = selected_status
        /\ selected_process_filter # "All" => row["processID"] = selected_process_filter
        /\ selected_submitter_filter # "All" => row["submitter"] = selected_submitter_filter)

JobIds(rows) == {rows[i]["jobID"] : i \in DOMAIN rows}

\* the Jobs column: the per-process fetch, the filters, the auto-selection and the rows
\* with their View buttons
FetchJobsTable ==
    /\ pc = "jobs"
    /\ \E r \in PageJobsResponses :
        LET df == FetchTable(r)
            entry == Logged(FetchTableRequest(BASE_URL, "jobs",
                                              ProcessParams(selected_process_id)), r)
        IN  IF df.tag = "raise"
            THEN /\ pc' = "crashed"
                 /\ log' = Append(log, entry)
                 /\ UNCHANGED <<selected_job_id, clicked, shown, view>>
            ELSE IF df.value.kind = "None" \/ df.value.rows = <<>>
            THEN /\ pc' = "details"
                 /\ log' = Append(log, entry)
                 /\ selected_job_id' = NoJob
                 /\ shown' = {}
                 /\ view' = [view EXCEPT !.table = [notice |-> "No jobs found.", rows |-> <<>>]]
                 /\ UNCHANGED clicked
            ELSE \E selected_status \in status_options,
                    selected_process_filter \in
                        {"All"} \cup {df.value.rows[i]["processID"] : i \in DOMAIN df.value.rows},
                    selected_submitter_filter \in
                        {"All"} \cup ({df.value.rows[i]["submitter"] : i \in DOMAIN df.value.rows}
                                          \ {Null}) :
                 LET filtered == ApplyFilters(df.value.rows, selected_status,
                                              selected_process_filter, selected_submitter_filter)
                 IN  IF filtered = <<>>
                     THEN /\ pc' = "details"
                          /\ log' = Append(log, entry)
                          /\ selected_job_id' = NoJob
                          /\ shown' = {}
                          /\ view' = [view EXCEPT !.table =
                                 [notice |-> "No jobs match your filters.", rows |-> <<>>]]
                          /\ UNCHANGED clicked
                     ELSE IF clicked \in JobIds(filtered)
                     THEN \* the clicked row's button: select the job and st.rerun()
                          /\ selected_job_id' = clicked
                          /\ clicked' = NoJob
                          /\ pc' = "start"
                          /\ log' = <<>>
                          /\ view' = BlankView
                          /\ UNCHANGED shown
                     ELSE /\ pc' = "details"
                          /\ log' = Append(log, entry)
                          /\ selected_job_id' = IF selected_job_id = NoJob
                                                THEN filtered[1]["jobID"]
                                                ELSE selected_job_id
                          /\ shown' = JobIds(filtered)
                          /\ view' = [view EXCEPT !.table =
                                 [notice |-> "none",
                                  rows |-> [i \in DOMAIN filtered |-> filtered[i]["jobID"]]]]
                          /\ UNCHANGED clicked
    /\ UNCHANGED <<df_all, selected_process_id, meta, clientVars, overviewVars>>

Shown(kind) == [kind |-> kind, error |-> NoError, status |-> NoStatus]
ShownError(e) == [kind |-> "error", error |-> e, status |-> NoStatus]
ShownStatus(st) == [kind |-> "error", error |-> NoError, status |-> st]

\* the Results branch after its GET
ResultsPanel(r) ==
    IF r.outcome = "transport_error" THEN Returned(ShownError(r.error))
    ELSE IF r.status = 200
    THEN \* the typed results or, on a ValidationError, the raw payload: a dict either way
         Returned(Shown("json"))
    ELSE Returned(ShownStatus(r.status))

\* the Logs branch after its GET
LogsPanel(r) ==
    IF r.outcome = "transport_error" THEN Returned(ShownError(r.error))
    ELSE IF r.status = 200
    THEN LET raw == r.body
         IN  IF LogsFields \subseteq DOMAIN raw
             THEN Returned(Shown("json"))      \* LogEntry objects are not dicts
             ELSE IF "process_logs" \in DOMAIN raw
             THEN IF raw["process_logs"] # <<>> /\ "msg" \in DOMAIN raw["process_logs"][1]
                  THEN Returned(Shown("code"))
                  ELSE Returned(Shown("json"))
             ELSE IF DOMAIN raw = {}
             THEN Returned(Shown("json"))
             ELSE Raised("KeyError")           \* process_logs[0] on the raw dict
    ELSE Returned(ShownStatus(r.status))

urls_to_try(job_id) ==
    <<BASE_URL \o "/jobs/" \o job_id \o "/metadata", BASE_URL \o "/jobs/" \o job_id>>

\* the Job Details column up to its first GET
ShowDetails ==
    /\ pc = "details"
    /\ IF selected_job_id = NoJob
       THEN /\ pc' = "done"
            /\ view' = [view EXCEPT !.details = Shown("info")]
            /\ UNCHANGED <<log, meta>>
       ELSE \E detail_option \in {"Results", "Logs", "Metadata"} :
            CASE detail_option = "Results" ->
                    \E r \in DetailResponses(ResultsFields) :
                        /\ log' = Append(log, Logged(PlainGet(
                               BASE_URL \o "/jobs/" \o selected_job_id \o "/results"), r))
                        /\ view' = [view EXCEPT !.details = ResultsPanel(r).value]
                        /\ pc' = "done"
                        /\ UNCHANGED meta
              [] detail_option = "Logs" ->
                    \E r \in DetailResponses(LogsFields) :
                        /\ log' = Append(log, Logged(PlainGet(
                               BASE_URL \o "/jobs/" \o selected_job_id \o "/logs"), r))
                        /\ IF LogsPanel(r).tag = "raise"
                           THEN pc' = "crashed" /\ UNCHANGED view
                           ELSE /\ pc' = "done"
                                /\ view' = [view EXCEPT !.details = LogsPanel(r).value]
                        /\ UNCHANGED meta
              [] detail_option = "Metadata" ->
                    /\ pc' = "metadata"
                    /\ meta' = [NoMeta EXCEPT !.i = 1]
                    /\ UNCHANGED <<log, view>>
    /\ UNCHANGED <<selected_job_id, clicked, shown, df_all, selected_process_id,
                   clientVars, overviewVars>>

\* the locals after one pass of the loop body over the answer r
MetadataAttempt(m, r) ==
    IF r.outcome = "transport_error"
    THEN [m EXCEPT !.last_error = r.error]
    ELSE IF r.status = 200
    THEN \* the typed dump or, on a ValidationError, the raw payload
         [m EXCEPT !.last_status = r.status, !.meta_data = Shown("json")]
    ELSE [m EXCEPT !.last_status = r.status]

\* the loop without its break
MetadataContinuesNoBreak(m, r) ==
    m.i < Len(urls_to_try(selected_job_id))

\* whether the loop goes on to the next url after the answer r
MetadataContinues(m, r) ==
    /\ m.i < Len(urls_to_try(selected_job_id))
    /\ r.outcome = "transport_error" \/ r.status # 200

\* what the code after the loop shows
MetadataPanel(m) ==
    IF m.meta_data # NoneValue THEN m.meta_data
    ELSE IF m.last_error # NoError THEN ShownError(m.last_error)
    ELSE IF m.last_status # NoStatus THEN ShownStatus(m.last_status)
    ELSE ShownError("unknown error")

\* one pass of `for url in urls_to_try`, and after the last one the display
MetadataTry ==
    /\ pc = "metadata"
    /\ \E r \in DetailResponses(MetadataFields) :
        LET m == MetadataAttempt(meta, r)
        IN  /\ log' = Append(log, Logged(PlainGet(urls_to_try(selected_job_id)[meta.i]), r))
            /\ IF MetadataContinues(meta, r)
               THEN /\ meta' = [m EXCEPT !.i = meta.i + 1]
                    /\ UNCHANGED <<pc, view>>
               ELSE /\ meta' = m
                    /\ pc' = "done"
                    /\ view' = [view EXCEPT !.details = MetadataPanel(m)]
    /\ UNCHANGED <<selected_job_id, clicked, shown, df_all, selected_process_id,
                   clientVars, overviewVars>>

\* a user interaction (a widget change or a click on a displayed View button) makes
\* the script run again; the session state is kept
Rerun ==
    /\ pc \in {"done", "crashed"}
    /\ pc' = "start"
    /\ \E c \in shown \cup {NoJob} : clicked' = c
    /\ log' = <<>>
    /\ df_all' = <<>>
    /\ selected_process_id' = Null
    /\ meta' = NoMeta
    /\ view' = BlankView
    /\ UNCHANGED <<selected_job_id, shown, clientVars, overviewVars>>

InitPage ==
    /\ PageIdle
    /\ call = NoCall
    /\ resp = NoneValue
    /\ sent = NoneValue
    /\ result = NoneValue
    /\ jobs = <<>>
    /\ out = NoneValue

NextPage ==
    \/ FetchOverviewJobs
    \/ RenderOverviewPanel
    \/ FetchProcesses
    \/ FetchJobsTable
    \/ ShowDetails
    \/ MetadataTry
    \/ Rerun

Spec == InitPage /\ [][NextPage]_vars

-----------------------------------------------------------------------------
(* Properties of the page script (checked under Spec) *)

PrimaryUrl == urls_to_try(selected_job_id)[1]
SecondaryUrl == urls_to_try(selected_job_id)[2]

\* the metadata GETs of this run, in order
MetadataGets == SelectSeq(log, LAMBDA e : e.url \in {PrimaryUrl, SecondaryUrl})

MetadataShown == pc = "done" /\ meta.i > 0

\* C3: the Metadata view calls the primary endpoint first; a non-200 status or a
\* transport error there is followed by exactly one call of the secondary endpoint;
\* a 200 from either is displayed and ends the calls, so a run issues at most two
\* metadata GETs and never the secondary one after a primary 200.
C3_MetadataFallback ==
    LET gets == MetadataGets
    IN  /\ Len(gets) <= 2
        /\ Len(gets) >= 1 => gets[1].url = PrimaryUrl
        /\ Len(gets) = 2 => gets[2].url = SecondaryUrl /\ gets[1].status # 200
        /\ MetadataShown =>
               /\ Len(gets) = (IF gets[1].status = 200 THEN 1 ELSE 2)
               /\ gets[Len(gets)].status = 200 => view.details = Shown("json")

\* a primary 404 was followed by one secondary call whose 200 was displayed
C3_Witness ==
    /\ MetadataShown
    /\ Len(MetadataGets) = 2
    /\ MetadataGets[1].url = PrimaryUrl /\ MetadataGets[1].status = 404
    /\ MetadataGets[2].url = SecondaryUrl /\ MetadataGets[2].status = 200
    /\ view.details = Shown("json")

\* C4: when both metadata endpoints fail, the error shown is the outcome of the
\* secondary call: its transport error if it raised, its HTTP status otherwise.
C4_LastAttemptReported ==
    (MetadataShown /\ Len(MetadataGets) = 2 /\ MetadataGets[2].status # 200) =>
        view.details = (IF MetadataGets[2].error # NoError
                        THEN ShownError(MetadataGets[2].error)
                        ELSE ShownStatus(MetadataGets[2].status))

\* C8: whatever the GETs of one run answer, the run reaches its end, and a panel
\* whose own fetches succeeded is on the page.
C8_NoFetchIsFatal ==
    /\ pc # "crashed"
    /\ pc = "done" => view.overview # NoneValue /\ view.table # BlankView.table

\* C12: when a run of the page has finished, the session's selected job id is None
\* if the filtered Jobs table is empty and otherwise the jobID of one of the rows
\* the table displays, so the details shown are those of a displayed job.
C12_SelectionIsDisplayed ==
    pc = "done" =>
        IF view.table.rows = <<>>
        THEN selected_job_id = NoJob
        ELSE selected_job_id \in Range(view.table.rows)

====
